---- MODULE Spec2Model ----
(***************************************************************************)
(* Segmentation / reassembly of fixed-layout records over CAN frames, as   *)
(* implemented by mcan_pack_send_msg and mcan_unpack_msg                   *)
(* (src/include/float_int16.hpp), together with the status plumbing of     *)
(* src/include/mc_firmware/status.hpp and the CanFrame of can_base.hpp;    *)
(* the addressing codec mcan_connect_msg_id_with_node_id and               *)
(* mcan_request_msg; and the callback dispatch and send_await_response     *)
(* that the CanBase interface of can_base.hpp declares.                    *)
(*                                                                         *)
(* A record T is modelled by its size S = sizeof(T) = sizeof(T::value)     *)
(* (T holds the member `value` and the static constant k_base_address)     *)
(* and by the S bytes of its object representation, a sequence over        *)
(* 0..255.  Byte offset o of the C++ object is element o + 1 of the        *)
(* sequence; frame.data[m] is element m + 1 of the frame's data sequence.  *)
(***************************************************************************)
EXTENDS Integers, Sequences, FiniteSets, TLC

VARIABLES
  S,          \* sizeof(T) of the record type exchanged
  rec,        \* struct_to_send.value of the current transmission
  node_id,    \* the int node_id argument of mcan_pack_send_msg
  handed,     \* frames passed to can_interface.send by the last mcan_pack_send_msg
  tx_status,  \* Status returned by the last mcan_pack_send_msg ("none" before)
  bus,        \* what can_interface.send returned, per call, during that call
  txCount,    \* number of mcan_pack_send_msg calls so far
  wire,       \* frames accepted by the bus, not yet received
  value,      \* CanMultiPackageFrame<T>::value
  received,   \* CanMultiPackageFrame<T>::received, the set of set bits
  ret,        \* Status returned by the last mcan_unpack_msg ("none" before)
  rxFrame,    \* the frame given to the last mcan_unpack_msg
  calls,      \* number of mcan_unpack_msg calls so far
  fault,      \* "none", "oob" (a write left `value`), "crash" (size_t underflow)
  word,       \* sizeof(unsigned long) of the build, the word of std::bitset
  run,        \* history: segments of the current transmission delivered in
              \* order since the buffer was last fresh or reset; -1 once any
              \* other frame was applied
  wasReset,   \* history: the buffer was reset by an out-of-range index
  lastSeg,    \* history: per index, the frame last applied since the last reset
  written,    \* history: per index, the value offsets written since the last reset
  k_base_address, \* T::k_base_address of the record type
  txLog,      \* history: record and Status of every earlier mcan_pack_send_msg
  requested,  \* frames passed to can_interface.send by the last mcan_request_msg
  req_status, \* Status returned by the last mcan_request_msg ("none" before)
  req_bus,    \* what can_interface.send returned during that call
  codec_in,   \* arguments of the last mcan_connect_msg_id_with_node_id call
  codec_id,   \* the id it returned (-1 before)
  codec_prev_in, \* history: arguments of the call before the last
  codec_prev_id, \* history: the id that call returned (-1 before)
  callbacks,  \* CanBase: the exact callbacks, id -> callback
  masked,     \* CanBase: the masked callbacks, in the order they were added
  registrations, \* number of callbacks added so far; names the next callback
  dispatches, \* number of frames the receive path has dispatched
  dispatched, \* id of the last frame dispatched (-1 before)
  invoked,    \* the callbacks invoked for that frame, in order
  waiter,     \* the waiter of a pending send_await_response, or NoWaiter
  await_result, \* what the last send_await_response returned, "pending"
              \* while it blocks ("none" before)
  timeout_ms, \* its timeout
  elapsed,    \* milliseconds it has waited
  returned_at \* history: the value of dispatches when it returned (-1 before)

txVars == <<S, rec, node_id, handed, tx_status, bus, txCount, k_base_address, txLog>>
reqVars == <<requested, req_status, req_bus>>
codecVars == <<codec_in, codec_id, codec_prev_in, codec_prev_id>>
registryVars == <<callbacks, masked, registrations>>
dispatchVars == <<dispatches, dispatched, invoked>>
awaitVars == <<waiter, await_result, timeout_ms, elapsed, returned_at>>
canVars == <<registryVars, dispatchVars, awaitVars>>

vars == <<S, rec, node_id, handed, tx_status, bus, txCount, wire, value, received,
          ret, rxFrame, calls, fault, word, run, wasReset, lastSeg, written,
          k_base_address, txLog, requested, req_status, req_bus,
          codec_in, codec_id, codec_prev_in, codec_prev_id, callbacks, masked, registrations, dispatches,
          dispatched, invoked, waiter, await_result, timeout_ms, elapsed,
          returned_at>>

(***************************************************************************)
(* Bounds and input sets                                                   *)
(***************************************************************************)
MaxTx == 2
MaxCalls == 4
MaxRegistrations == 3
MaxDispatches == 2

SmallSizes == {1, 3, 7, 8}
MultiSizes == {9, 14, 16, 20}
LargeSizes == {1792, 1793}
PermSizes == {9, 16, 20, 23}
AnySizes == {3, 8, 9, 16}
NodeIds == {5, 261}
Patterns == {1, 2}
JunkBytes == {0, 165}
WordSizes == {4, 8}
SendErrors == {"IOError", "TimeOut"}

\* T::k_base_address of the example record type, and the extremes of 21 bits
K_BASE_ADDRESS == 4660
BaseAddresses == {K_BASE_ADDRESS, 0, 2097151}

(***************************************************************************)
(* Program constants                                                       *)
(***************************************************************************)
CAN_REMOTE_REQUEST_FLAG == 1073741824
CAN_ANY_FRAME == 0
MAX_STRUCT_SIZE == 16320

Byte == 0..255

\* static_cast<uint8_t>(x), also the int -> uint8_t conversion of node_id
U8(x) == x % 256

\* x << 8 in uint32_t: the top 8 bits of x are shifted out
ShiftLeft8(x) == (x % 16777216) * 256

RECURSIVE BitOr(_, _)
BitOr(a, b) ==
  IF a = 0 THEN b
  ELSE IF b = 0 THEN a
  ELSE (IF a % 2 = 1 \/ b % 2 = 1 THEN 1 ELSE 0) + 2 * BitOr(a \div 2, b \div 2)

\* a & b in uint32_t
RECURSIVE BitAnd(_, _)
BitAnd(a, b) ==
  IF a = 0 \/ b = 0 THEN 0
  ELSE (IF a % 2 = 1 /\ b % 2 = 1 THEN 1 ELSE 0) + 2 * BitAnd(a \div 2, b \div 2)

\* Result<CanFrame> of send_await_response: a Status, and with OK the id
\* of the frame received
Returned(st, fid) == [status |-> st, id |-> fid]

\* no send_await_response has been called
NoWaiter == [waiting |-> FALSE, response_id |-> 0]

\* the bytes of a record of pattern p: position dependent, so that a byte
\* copied to or from the wrong offset is visible
PatByte(p, o) == (o * 37 + (o \div 256) * 11 + p * 101 + 1) % 256
Rec(p, sz) == [i \in 1..sz |-> PatByte(p, i - 1)]

\* Type value = {} : the zeroed record
Zeroed(sz) == [i \in 1..sz |-> 0]

ok(st) == st = "OK"

(***************************************************************************)
(* CanMultiPackageFrame<T>::expected_index_count                           *)
(***************************************************************************)
expected_index_count(sz) == sz \div 7 + (IF sz % 7 # 0 THEN 1 ELSE 0)

(***************************************************************************)
(* mcan_connect_msg_id_with_node_id(uid_21_bit, node_id, remote)           *)
(***************************************************************************)
\* mutant: the remote-request flag is folded into the top of the 29 id bits
mcan_connect_msg_id_flag_in_id(uid_21_bit, nid, remote) ==
  BitOr(BitOr(ShiftLeft8(uid_21_bit), U8(nid)),
        IF remote THEN 268435456 ELSE 0)

\* mutant: the base address is shifted by 7 bits, its lowest bit shares a
\* bit with node_id
mcan_connect_msg_id_shift_7(uid_21_bit, nid, remote) ==
  BitOr(BitOr((uid_21_bit % 33554432) * 128, U8(nid)),
        IF remote THEN CAN_REMOTE_REQUEST_FLAG ELSE 0)

\* mutant: node_id is taken as the int it is passed as, not as uint8_t
mcan_connect_msg_id_int_node(uid_21_bit, nid, remote) ==
  BitOr(BitOr(ShiftLeft8(uid_21_bit), nid),
        IF remote THEN CAN_REMOTE_REQUEST_FLAG ELSE 0)

mcan_connect_msg_id_with_node_id(uid_21_bit, nid, remote) ==
  BitOr(BitOr(ShiftLeft8(uid_21_bit), U8(nid)),
        IF remote THEN CAN_REMOTE_REQUEST_FLAG ELSE 0)

(***************************************************************************)
(* CanFrame (can_base.hpp).  `CanFrame frame;` leaves every field          *)
(* uninitialized: data bytes the code never writes hold the junk byte j.   *)
(***************************************************************************)
UninitFrame(j) ==
  [id |-> 0, size |-> 0, data |-> [m \in 1..8 |-> j],
   is_remote_request |-> FALSE, is_extended |-> FALSE]

\* std::memcpy(dst + off, src + from, n) on byte sequences: the n bytes
\* src[from .. from + n) land at dst[off .. off + n)
memcpy(dst, off, src, from, n) ==
  [i \in 1..Len(dst) |->
     IF i - 1 >= off /\ i - 1 < off + n THEN src[from + (i - 1 - off) + 1]
     ELSE dst[i]]

(***************************************************************************)
(* mcan_pack_send_msg, multi-frame branch                                  *)
(***************************************************************************)
\* int total_frames = sizeof(T) / 7; if (sizeof(T) % 7 != 0) total_frames += 1;
total_frames(sz) == (sz \div 7) + (IF sz % 7 # 0 THEN 1 ELSE 0)

\* frame.size of loop iteration frame_index
segment_size(sz, frame_index) ==
  IF frame_index = total_frames(sz) - 1 THEN (sz - frame_index * 7) + 1 ELSE 8

\* frame.data[0] = static_cast<uint8_t>(frame_index)
segment_index_byte(frame_index) == U8(frame_index)

\* one iteration of the loop body on the frame object left by the previous one
segment_frame(frame, sz, val, frame_index) ==
  LET fsize == segment_size(sz, frame_index)
      d0    == [frame.data EXCEPT ![1] = segment_index_byte(frame_index)]
  IN [frame EXCEPT
        !.size = fsize,
        !.data = memcpy(d0, 1, val, frame_index * 7, fsize - 1),
        !.is_extended = TRUE,
        !.is_remote_request = FALSE]

\* mutant: the failure of a send is ignored
return_on_error_ignored(st) == FALSE

\* ARI_RETURN_ON_ERROR(x): return the status when it is not ok
return_on_error(st) == ~ok(st)

\* The frame object at the start of iteration frame_index: the
\* uninitialized frame before the first, and otherwise what iteration
\* frame_index - 1 left (never the last iteration, it wrote size 8 and all
\* of data, so nothing older shows through).
frame_before(frame, sz, val, frame_index) ==
  IF frame_index = 0 THEN frame
  ELSE segment_frame(frame, sz, val, frame_index - 1)

\* the frame handed to send in iteration frame_index
loop_frame(frame, sz, val, frame_index) ==
  segment_frame(frame_before(frame, sz, val, frame_index), sz, val, frame_index)

\* the iterations whose send makes the function return
failing_sends(sz, results) ==
  {k \in 0..(total_frames(sz) - 1) : return_on_error(results[k])}

Min(set) == CHOOSE k \in set : \A j \in set : k <= j

\* the for loop; results[k] is what can_interface.send returns in iteration
\* k.  It runs up to and including the first failing send.  Yields the
\* frames handed to send and the Status the function returns.
segment_loop(frame, sz, val, results) ==
  LET bad   == failing_sends(sz, results)
      count == IF bad = {} THEN total_frames(sz) ELSE Min(bad) + 1
  IN [frames |-> [i \in 1..count |-> loop_frame(frame, sz, val, i - 1)],
      status |-> IF bad = {} THEN "OK" ELSE results[Min(bad)]]

\* single-frame branch: sizeof(T::value) <= 8
single_frame(frame, sz, val) ==
  [frame EXCEPT
     !.size = sz,
     !.data = memcpy(frame.data, 0, val, 0, sz),
     !.is_extended = TRUE,
     !.is_remote_request = FALSE]

\* the whole function: frames handed to send, in order, and the returned Status
mcan_pack_send_msg(sz, val, nid, junk, results) ==
  LET frame == [UninitFrame(junk) EXCEPT
                  !.id = mcan_connect_msg_id_with_node_id(k_base_address, nid, FALSE)]
  IN IF sz <= 8
     THEN [frames |-> <<single_frame(frame, sz, val)>>, status |-> results[0]]
     ELSE segment_loop(frame, sz, val, results)

(***************************************************************************)
(* mcan_request_msg: the frame handed to send and the returned Status;     *)
(* result is what can_interface.send returns.  frame.data is never         *)
(* written and keeps the junk of the uninitialized frame.                  *)
(***************************************************************************)
\* mutant: the request carries the record as mcan_pack_send_msg would send it
mcan_request_msg_with_payload(sz, val, nid, junk, result) ==
  [frames |-> mcan_pack_send_msg(sz, val, nid, junk,
                                 [k \in 0..(total_frames(sz) - 1) |-> result]).frames,
   status |-> result]

mcan_request_msg(sz, val, nid, junk, result) ==
  LET frame == [UninitFrame(junk) EXCEPT
                  !.id = mcan_connect_msg_id_with_node_id(k_base_address, nid, TRUE)]
  IN [frames |-> <<[frame EXCEPT
                      !.size = 0,
                      !.is_extended = TRUE,
                      !.is_remote_request = TRUE]>>,
      status |-> result]

\* the frames of one transmission in which every send succeeds
AllOk(sz) == [k \in 0..(total_frames(sz) - 1) |-> "OK"]
TxFrames(sz, val, nid) == mcan_pack_send_msg(sz, val, nid, 0, AllOk(sz)).frames

\* its k-th frame (from 0), for a record of more than 8 bytes
TxFrame(sz, val, nid, k) ==
  loop_frame([UninitFrame(0) EXCEPT
                !.id = mcan_connect_msg_id_with_node_id(k_base_address, nid, FALSE)],
             sz, val, k)

\* outcomes of the bus: every send succeeds, or call k fails with error e
FailPoints(sz) ==
  IF sz <= 8 THEN {0}
  ELSE {0, 1, total_frames(sz) - 1}
SendResults(sz) ==
  {AllOk(sz)} \cup
  {[AllOk(sz) EXCEPT ![k] = e] : k \in FailPoints(sz), e \in SendErrors} \cup
  {[k \in DOMAIN AllOk(sz) |-> IF k = 0 THEN "IOError" ELSE "TimeOut"]}

(***************************************************************************)
(* mcan_unpack_msg.  The result is the outcome of the call:                *)
(* [value, received, ret, fault].                                          *)
(***************************************************************************)
\* size_t index = frame.data[0]
segment_index(frame) == frame.data[1]

\* mutant: the bound check is off by one
index_out_of_bounds_off_by_one(index, sz) == index > expected_index_count(sz)

\* if (index >= CanMultiPackageFrame<T>::expected_index_count)
index_out_of_bounds(index, sz) == index >= expected_index_count(sz)

\* size_t data_size = frame.size - 1, in unsigned arithmetic: 0 - 1 wraps to
\* SIZE_MAX, for which the largest integer of the checker stands
data_size(frame) == IF frame.size >= 1 THEN frame.size - 1 ELSE 2147483647

\* mutant: completion is reported when the last index has arrived
all_received_last_index(recv, sz) == (expected_index_count(sz) - 1) \in recv

\* struct_to_receive.received.all()
all_received(recv, sz) == recv = 0..(expected_index_count(sz) - 1)

\* the bytes of the copy that land inside value
InBounds(sz, off, n) == IF off + n <= sz THEN n ELSE sz - off

\* offset of `received` in CanMultiPackageFrame: the end of value, rounded
\* up to the alignment of the words std::bitset stores
received_offset(sz, w) == ((sz + w - 1) \div w) * w

\* The copy of n bytes to value + off runs past the end of value.  Past the
\* padding lies `received`: bit b is in its byte b / 8 (little endian), and
\* a byte the copy reaches takes the frame byte copied there; the other
\* bits are kept.
overflow_into_received(recv, sz, off, n, frame, w) ==
  LET ro       == received_offset(sz, w)
      hit(b)   == off <= ro + (b \div 8) /\ ro + (b \div 8) < off + n
      byte(b)  == frame.data[(ro + (b \div 8) - off) + 2]
  IN {b \in 0..(expected_index_count(sz) - 1) :
        IF hit(b) THEN (byte(b) \div (2 ^ (b % 8))) % 2 = 1 ELSE b \in recv}

unpack_complete_status(recv, sz) ==
  IF all_received(recv, sz) THEN "OK" ELSE "Cancelled"

\* mutant: the copy is one byte short
unpack_single_short_copy(frame, sz, val, recv) ==
  IF frame.size # sz
  THEN [value |-> val, received |-> recv, ret |-> "Invalid", fault |-> "none"]
  ELSE [value |-> memcpy(val, 0, frame.data, 0, sz - 1), received |-> recv,
        ret |-> "OK", fault |-> "none"]

\* mutant: a size mismatch resets the buffer as a bad index does
unpack_single_resets(frame, sz, val, recv) ==
  IF frame.size # sz
  THEN [value |-> Zeroed(sz), received |-> {}, ret |-> "Invalid",
        fault |-> "none"]
  ELSE [value |-> memcpy(val, 0, frame.data, 0, sz), received |-> recv,
        ret |-> "OK", fault |-> "none"]

unpack_single(frame, sz, val, recv) ==
  IF frame.size # sz
  THEN [value |-> val, received |-> recv, ret |-> "Invalid", fault |-> "none"]
  ELSE [value |-> memcpy(val, 0, frame.data, 0, sz), received |-> recv,
        ret |-> "OK", fault |-> "none"]

\* mutant: a segment whose bit is already set is not copied again
unpack_multi_keep_received(frame, sz, val, recv, w) ==
  LET index == segment_index(frame)
      n     == data_size(frame)
      off   == index * 7
  IN IF index_out_of_bounds(index, sz)
     THEN [value |-> Zeroed(sz), received |-> {}, ret |-> "Invalid",
           fault |-> "none"]
     ELSE IF index \in recv
     THEN [value |-> val, received |-> recv,
           ret |-> unpack_complete_status(recv, sz), fault |-> "none"]
     ELSE IF n > 7
     THEN [value |-> val, received |-> recv, ret |-> "none", fault |-> "crash"]
     ELSE IF off + n > sz
     THEN LET r == overflow_into_received(recv, sz, off, n, frame, w) \cup {index}
          IN [value |-> memcpy(val, off, frame.data, 1, InBounds(sz, off, n)),
              received |-> r,
              ret |-> unpack_complete_status(r, sz),
              fault |-> "oob"]
     ELSE [value |-> memcpy(val, off, frame.data, 1, n),
           received |-> recv \cup {index},
           ret |-> unpack_complete_status(recv \cup {index}, sz),
           fault |-> "none"]

unpack_multi(frame, sz, val, recv, w) ==
  LET index == segment_index(frame)
      n     == data_size(frame)
      off   == index * 7
  IN IF index_out_of_bounds(index, sz)
     THEN [value |-> Zeroed(sz), received |-> {}, ret |-> "Invalid",
           fault |-> "none"]
     ELSE IF n > 7
     THEN \* frame.size = 0: the copy length wraps to SIZE_MAX and the copy
          \* runs off the frame and the buffer until the program faults
          [value |-> val, received |-> recv, ret |-> "none", fault |-> "crash"]
     ELSE IF off + n > sz
     THEN LET r == overflow_into_received(recv, sz, off, n, frame, w) \cup {index}
          IN [value |-> memcpy(val, off, frame.data, 1, InBounds(sz, off, n)),
              received |-> r,
              ret |-> unpack_complete_status(r, sz),
              fault |-> "oob"]
     ELSE [value |-> memcpy(val, off, frame.data, 1, n),
           received |-> recv \cup {index},
           ret |-> unpack_complete_status(recv \cup {index}, sz),
           fault |-> "none"]

mcan_unpack_msg(frame, sz, val, recv, w) ==
  IF sz <= 8 THEN unpack_single(frame, sz, val, recv)
  ELSE unpack_multi(frame, sz, val, recv, w)

(***************************************************************************)
(* History of the reassembly buffer                                        *)
(***************************************************************************)
Indices(sz) == 0..(expected_index_count(sz) - 1)

\* the fields of a frame that travel on the bus: data beyond size does not
SameValid(f, g) ==
  /\ f.id = g.id
  /\ f.size = g.size
  /\ f.is_extended = g.is_extended
  /\ f.is_remote_request = g.is_remote_request
  /\ \A m \in 1..8 : m <= f.size => f.data[m] = g.data[m]

\* f is the k-th frame (from 0) of the transmission of the current record
IsSegment(f, k) ==
  /\ k >= 0
  /\ k < total_frames(S)
  /\ SameValid(f, TxFrame(S, rec, node_id, k))

NoSegs(sz) == [i \in Indices(sz) |-> {}]

(***************************************************************************)
(* Initial state: a record type of size S, a buffer as constructed         *)
(* (value zeroed, no bit set), nothing sent yet.                           *)
(***************************************************************************)
InitWith(sizes, nodes, patterns, words, bases) ==
  /\ S \in sizes
  /\ k_base_address \in bases
  /\ txLog = <<>>
  /\ requested = <<>>
  /\ req_status = "none"
  /\ req_bus = "none"
  /\ codec_in = <<>>
  /\ codec_id = -1
  /\ codec_prev_in = <<>>
  /\ codec_prev_id = -1
  /\ callbacks = <<>>
  /\ masked = <<>>
  /\ registrations = 0
  /\ dispatches = 0
  /\ dispatched = -1
  /\ invoked = <<>>
  /\ waiter = NoWaiter
  /\ await_result = Returned("none", -1)
  /\ timeout_ms = 0
  /\ elapsed = 0
  /\ returned_at = -1
  /\ S <= MAX_STRUCT_SIZE
  /\ rec \in {Rec(p, S) : p \in patterns}
  /\ node_id \in nodes
  /\ handed = <<>>
  /\ tx_status = "none"
  /\ bus = AllOk(S)
  /\ txCount = 0
  /\ wire = <<>>
  /\ value = Zeroed(S)
  /\ received = {}
  /\ ret = "none"
  /\ rxFrame = UninitFrame(0)
  /\ calls = 0
  /\ fault = "none"
  /\ word \in words
  /\ run = 0
  /\ wasReset = FALSE
  /\ lastSeg = NoSegs(S)
  /\ written = NoSegs(S)

(***************************************************************************)
(* One call of mcan_pack_send_msg: the record is segmented and every frame *)
(* is handed to can_interface.send until a send fails.  The frames whose   *)
(* send succeeded are on the wire.                                         *)
(***************************************************************************)
Accepted(r) ==
  IF ok(r.status) THEN r.frames ELSE SubSeq(r.frames, 1, Len(r.frames) - 1)

PackSend ==
  /\ txCount < MaxTx
  /\ wire = <<>>
  /\ fault # "crash"
  /\ \E p \in Patterns, junk \in JunkBytes, results \in SendResults(S) :
       LET r == mcan_pack_send_msg(S, Rec(p, S), node_id, junk, results)
       IN /\ rec' = Rec(p, S)
          /\ handed' = r.frames
          /\ tx_status' = r.status
          /\ bus' = results
          /\ wire' = Accepted(r)
  /\ txCount' = txCount + 1
  /\ txLog' = IF txCount = 0 THEN txLog
              ELSE Append(txLog, [status |-> tx_status, rec |-> rec])
  /\ run' = IF run = 0 THEN 0 ELSE -1
  /\ UNCHANGED <<S, node_id, value, received, ret, rxFrame, calls, fault,
                 word, wasReset, lastSeg, written, k_base_address>>
  /\ UNCHANGED <<reqVars, codecVars, canVars>>

(***************************************************************************)
(* One call of mcan_request_msg for the record type.  A remote request     *)
(* carries its own id (bit 30 set) and is not a segment of the record: it  *)
(* does not reach the reassembly buffer.                                   *)
(***************************************************************************)
Request ==
  /\ wire = <<>>
  /\ fault # "crash"
  /\ \E junk \in JunkBytes, result \in {"OK"} \cup SendErrors :
       LET r == mcan_request_msg(S, rec, node_id, junk, result)
       IN /\ requested' = r.frames
          /\ req_status' = r.status
          /\ req_bus' = result
  /\ UNCHANGED <<txVars, wire, value, received, ret, rxFrame, calls, fault,
                 word, run, wasReset, lastSeg, written>>
  /\ UNCHANGED <<codecVars, canVars>>

(***************************************************************************)
(* One call of mcan_unpack_msg on frame f                                  *)
(***************************************************************************)
WrittenBy(f) ==
  {segment_index(f) * 7 + j :
     j \in 0..(InBounds(S, segment_index(f) * 7, data_size(f)) - 1)}

History(f, o) ==
  IF S <= 8
  THEN UNCHANGED <<run, wasReset, lastSeg, written>>
  ELSE IF o.fault = "crash"
  THEN run' = -1 /\ UNCHANGED <<wasReset, lastSeg, written>>
  ELSE IF segment_index(f) \notin Indices(S)
  THEN /\ run' = 0
       /\ wasReset' = TRUE
       /\ lastSeg' = NoSegs(S)
       /\ written' = NoSegs(S)
  ELSE /\ run' = IF IsSegment(f, run) THEN run + 1 ELSE -1
       /\ wasReset' = wasReset
       /\ lastSeg' = [lastSeg EXCEPT ![segment_index(f)] = {f}]
       /\ written' = [written EXCEPT ![segment_index(f)] = @ \cup WrittenBy(f)]

Deliver(f) ==
  /\ fault # "crash"
  /\ LET o == mcan_unpack_msg(f, S, value, received, word)
     IN /\ value' = o.value
        /\ received' = o.received
        /\ ret' = o.ret
        /\ fault' = IF o.fault # "none" THEN o.fault ELSE fault
        /\ History(f, o)
  /\ word' = word
  /\ rxFrame' = f
  /\ calls' = calls + 1

\* the transport hands the frames to the receiver in bus order
Recv ==
  /\ wire # <<>>
  /\ Deliver(Head(wire))
  /\ wire' = Tail(wire)
  /\ UNCHANGED txVars
  /\ UNCHANGED <<reqVars, codecVars, canVars>>

Init == InitWith(SmallSizes \cup MultiSizes, NodeIds, Patterns, {4}, BaseAddresses)
Next == PackSend \/ Recv
Spec == Init /\ [][Next]_vars

\* records beyond the reach of the one-byte segment index
InitLarge == InitWith(LargeSizes, {5}, {1}, {4}, {K_BASE_ADDRESS})
PackSendOnce == txCount = 0 /\ PackSend
NextLarge == PackSendOnce \/ Recv
SpecLarge == InitLarge /\ [][NextLarge]_vars

\* requests for a record between the transmissions of it
RequestSizes == {3, 8, 9, 20}
InitRequest == InitWith(RequestSizes, NodeIds, {1}, {4}, BaseAddresses)
NextRequest == Request \/ PackSendOnce \/ Recv
SpecRequest == InitRequest /\ [][NextRequest]_vars

\* the frames of a transmission reach the receiver in any order
RecvAnyOrder ==
  /\ \E i \in 1..Len(wire) :
       /\ Deliver(wire[i])
       /\ wire' = [j \in 1..(Len(wire) - 1) |->
                     IF j < i THEN wire[j] ELSE wire[j + 1]]
  /\ UNCHANGED txVars
  /\ UNCHANGED <<reqVars, codecVars, canVars>>

InitPerm == InitWith(PermSizes, NodeIds, Patterns, {4}, {K_BASE_ADDRESS})
NextPerm == PackSend \/ RecvAnyOrder
SpecPerm == InitPerm /\ [][NextPerm]_vars

(***************************************************************************)
(* Frames of any content reach mcan_unpack_msg: the frames of a            *)
(* transmission of some record, with the size field and the index byte     *)
(* possibly altered.                                                       *)
(***************************************************************************)
ArbSizes(sz, k) ==
  IF sz <= 8 THEN {0, 1, sz, 8}
  ELSE {0, 2, 8, segment_size(sz, k)}

SegmentLike ==
  UNION {{[TxFrames(S, Rec(p, S), node_id)[k + 1] EXCEPT !.size = s] :
            s \in ArbSizes(S, k)} :
         p \in Patterns, k \in 0..(Len(TxFrames(S, Rec(1, S), node_id)) - 1)}

BadIndexLike ==
  {[TxFrames(S, Rec(1, S), node_id)[1] EXCEPT !.size = x[2], !.data[1] = x[1]] :
     x \in {<<expected_index_count(S), 8>>, <<255, 0>>}}

InjectSegment ==
  /\ calls < MaxCalls
  /\ \E f \in SegmentLike : Deliver(f)
  /\ UNCHANGED <<txVars, wire>>
  /\ UNCHANGED <<reqVars, codecVars, canVars>>

InjectBadIndex ==
  /\ calls < MaxCalls
  /\ S > 8
  /\ \E f \in BadIndexLike : Deliver(f)
  /\ UNCHANGED <<txVars, wire>>
  /\ UNCHANGED <<reqVars, codecVars, canVars>>

InitAny == InitWith(AnySizes, {5}, {1}, WordSizes, {K_BASE_ADDRESS})
NextAny == InjectSegment \/ InjectBadIndex
SpecAny == InitAny /\ [][NextAny]_vars

(***************************************************************************)
(* Two nodes transmit the record type.  mcan_unpack_msg reads data and     *)
(* size of the frame it is given and never its id, and                     *)
(* CanMultiPackageFrame<T> holds no id: the receiver has one buffer for    *)
(* the record type, and the frames of both nodes, matched by base address, *)
(* are unpacked into it as they arrive.                                    *)
(***************************************************************************)
OTHER_NODE_ID == 6
OtherRec == Rec(3, S)
TwoNodeSizes == {9, 16}

\* a frame of the other node's transmission arrives
RecvOtherNode ==
  /\ calls < MaxCalls
  /\ \E k \in 0..(total_frames(S) - 1) :
       Deliver(TxFrame(S, OtherRec, OTHER_NODE_ID, k))
  /\ UNCHANGED <<txVars, wire>>
  /\ UNCHANGED <<reqVars, codecVars, canVars>>

InitTwoNodes == InitWith(TwoNodeSizes, {5}, Patterns, {4}, {K_BASE_ADDRESS})
NextTwoNodes == PackSend \/ RecvAnyOrder \/ RecvOtherNode
SpecTwoNodes == InitTwoNodes /\ [][NextTwoNodes]_vars

(***************************************************************************)
(* The addressing codec on its own: mcan_connect_msg_id_with_node_id is    *)
(* applied to base addresses of up to 21 bits, node ids 0..255 and both    *)
(* values of the remote flag.                                              *)
(***************************************************************************)
CodecBases == {0, 1, K_BASE_ADDRESS, 699050, 1048576, 1398101, 2097151}
CodecNodes == {0, 1, 2, 5, 85, 128, 170, 255}

Compose ==
  /\ \E b \in CodecBases, n \in CodecNodes, r \in BOOLEAN :
       /\ codec_in' = <<b, n, r>>
       /\ codec_id' = mcan_connect_msg_id_with_node_id(b, n, r)
  /\ codec_prev_in' = codec_in
  /\ codec_prev_id' = codec_id
  /\ UNCHANGED <<txVars, wire, value, received, ret, rxFrame, calls, fault,
                 word, run, wasReset, lastSeg, written>>
  /\ UNCHANGED <<reqVars, canVars>>

InitCodec == InitWith({8}, {5}, {1}, {4}, {K_BASE_ADDRESS})
NextCodec == Compose
SpecCodec == InitCodec /\ [][NextCodec]_vars

(***************************************************************************)
(* CanBase (can_base.hpp) declares the operations of the bus; how a        *)
(* received frame is dispatched to the callbacks and how                   *)
(* send_await_response waits is code of the drivers that implement the     *)
(* interface.  It is modelled here from the specification (4.4) and from   *)
(* the notes of the declarations.  A callback is named by the number of    *)
(* the registration that added it.                                         *)
(***************************************************************************)
\* ids on the bus: the record type at two nodes, and the remote request for
\* it at the first
DataIds ==
  {mcan_connect_msg_id_with_node_id(K_BASE_ADDRESS, n, FALSE) : n \in {5, 6}}
BusIds ==
  DataIds \cup {mcan_connect_msg_id_with_node_id(K_BASE_ADDRESS, 5, TRUE)}

\* masks: the 21 bits of the base address, and all 29 bits of the id
BASE_ADDRESS_MASK == 536870656
FULL_ID_MASK == 536870911
BusMasks == {BASE_ADDRESS_MASK, FULL_ID_MASK}
MaskedBases == {mcan_connect_msg_id_with_node_id(K_BASE_ADDRESS, n, FALSE) : n \in {0, 5}}

\* a frame with identifier fid matches a masked entry
masked_match(entry, fid) ==
  BitAnd(fid, entry.id_mask) = BitAnd(entry.id_base, entry.id_mask)

\* mutant: every matching masked callback is invoked
all_masked(entries, fid) ==
  LET hits == SelectSeq(entries, LAMBDA e : masked_match(e, fid))
  IN [i \in 1..Len(hits) |-> hits[i].callback]

\* the masked entries are scanned in the order they were added; the scan
\* stops at the first match
RECURSIVE first_masked(_, _)
first_masked(entries, fid) ==
  IF entries = <<>> THEN <<>>
  ELSE IF masked_match(Head(entries), fid) THEN <<Head(entries).callback>>
  ELSE first_masked(Tail(entries), fid)

\* mutant: the masked callbacks are tried as well when an exact one matched
callbacks_for_masked_too(cbs, msk, fid) ==
  (IF fid \in DOMAIN cbs THEN <<cbs[fid]>> ELSE <<>>) \o first_masked(msk, fid)

\* the callbacks invoked for a frame with identifier fid, in order
callbacks_for(cbs, msk, fid) ==
  IF fid \in DOMAIN cbs THEN <<cbs[fid]>> ELSE first_masked(msk, fid)

AddCallback ==
  /\ registrations < MaxRegistrations
  /\ \E id \in DataIds \ DOMAIN callbacks :
       callbacks' = [i \in DOMAIN callbacks \cup {id} |->
                       IF i = id THEN registrations + 1 ELSE callbacks[i]]
  /\ registrations' = registrations + 1
  /\ UNCHANGED <<masked, dispatchVars, awaitVars>>
  /\ UNCHANGED <<txVars, wire, value, received, ret, rxFrame, calls, fault,
                 word, run, wasReset, lastSeg, written, reqVars, codecVars>>

AddCallbackMasked ==
  /\ registrations < MaxRegistrations
  /\ \E b \in MaskedBases, m \in BusMasks :
       masked' = Append(masked, [id_base |-> b, id_mask |-> m,
                                 callback |-> registrations + 1])
  /\ registrations' = registrations + 1
  /\ UNCHANGED <<callbacks, dispatchVars, awaitVars>>
  /\ UNCHANGED <<txVars, wire, value, received, ret, rxFrame, calls, fault,
                 word, run, wasReset, lastSeg, written, reqVars, codecVars>>

RemoveCallback ==
  /\ \E id \in DOMAIN callbacks :
       callbacks' = [i \in DOMAIN callbacks \ {id} |-> callbacks[i]]
  /\ UNCHANGED <<masked, registrations, dispatchVars, awaitVars>>
  /\ UNCHANGED <<txVars, wire, value, received, ret, rxFrame, calls, fault,
                 word, run, wasReset, lastSeg, written, reqVars, codecVars>>

RemoveCallbackMasked ==
  /\ \E i \in 1..Len(masked) :
       masked' = SelectSeq(masked,
                           LAMBDA e : ~(/\ e.id_base = masked[i].id_base
                                        /\ e.id_mask = masked[i].id_mask))
  /\ UNCHANGED <<callbacks, registrations, dispatchVars, awaitVars>>
  /\ UNCHANGED <<txVars, wire, value, received, ret, rxFrame, calls, fault,
                 word, run, wasReset, lastSeg, written, reqVars, codecVars>>

\* the waiter of a send_await_response is woken by a frame with its
\* response id, or by any frame when that is CAN_ANY_FRAME
waiter_matches(w, fid) ==
  /\ w.waiting
  /\ (w.response_id = CAN_ANY_FRAME \/ w.response_id = fid)

\* the waiter is deregistered: its slot no longer waits
deregistered(w) == [w EXCEPT !.waiting = FALSE]

\* mutant: the waiter stays registered after the timeout
waiter_after_timeout_kept(w) == w

\* the waiter is deregistered when the wait times out
waiter_after_timeout(w) == deregistered(w)

\* the receive path takes a frame from the bus: the waiter it matches
\* returns with it and is deregistered, and the callbacks are dispatched
Dispatch ==
  /\ dispatches < MaxDispatches
  /\ \E fid \in BusIds :
       /\ dispatched' = fid
       /\ invoked' = callbacks_for(callbacks, masked, fid)
       /\ IF waiter_matches(waiter, fid)
          THEN /\ await_result' = Returned("OK", fid)
               /\ waiter' = deregistered(waiter)
               /\ returned_at' = dispatches + 1
          ELSE UNCHANGED <<await_result, waiter, returned_at>>
  /\ dispatches' = dispatches + 1
  /\ UNCHANGED <<registryVars, timeout_ms, elapsed>>
  /\ UNCHANGED <<txVars, wire, value, received, ret, rxFrame, calls, fault,
                 word, run, wasReset, lastSeg, written, reqVars, codecVars>>

\* send_await_response(frame, response_id, timeout_ms): the waiter is
\* registered, the frame is sent and the caller blocks; a failed send
\* returns its Status at once
Timeouts == {1, 2}
SendAwaitResponse ==
  /\ ~waiter.waiting
  /\ \E rid \in {CAN_ANY_FRAME} \cup BusIds, t \in Timeouts,
        result \in {"OK"} \cup SendErrors :
       /\ timeout_ms' = t
       /\ elapsed' = 0
       /\ IF ok(result)
          THEN /\ waiter' = [waiting |-> TRUE, response_id |-> rid]
               /\ await_result' = Returned("pending", -1)
               /\ returned_at' = -1
          ELSE /\ waiter' = [waiting |-> FALSE, response_id |-> rid]
               /\ await_result' = Returned(result, -1)
               /\ returned_at' = dispatches
  /\ UNCHANGED <<registryVars, dispatchVars>>
  /\ UNCHANGED <<txVars, wire, value, received, ret, rxFrame, calls, fault,
                 word, run, wasReset, lastSeg, written, reqVars, codecVars>>

\* a millisecond passes while send_await_response blocks; at timeout_ms it
\* returns the timeout failure
Tick ==
  /\ waiter.waiting
  /\ elapsed' = elapsed + 1
  /\ IF elapsed + 1 >= timeout_ms
     THEN /\ await_result' = Returned("TimeOut", -1)
          /\ waiter' = waiter_after_timeout(waiter)
          /\ returned_at' = dispatches
     ELSE UNCHANGED <<await_result, waiter, returned_at>>
  /\ UNCHANGED <<registryVars, dispatchVars, timeout_ms>>
  /\ UNCHANGED <<txVars, wire, value, received, ret, rxFrame, calls, fault,
                 word, run, wasReset, lastSeg, written, reqVars, codecVars>>

InitCan == InitWith({8}, {5}, {1}, {4}, {K_BASE_ADDRESS})

\* registration, removal and dispatch of callbacks
NextDispatch ==
  \/ AddCallback
  \/ AddCallbackMasked
  \/ RemoveCallback
  \/ RemoveCallbackMasked
  \/ Dispatch
SpecDispatch == InitCan /\ [][NextDispatch]_vars

\* send_await_response against the receive path
NextAwait == SendAwaitResponse \/ Tick \/ Dispatch
SpecAwait == InitCan /\ [][NextAwait]_vars

(***************************************************************************)
(* Claims                                                                  *)
(***************************************************************************)
\* bit k of x
Bit(x, k) == (x \div (2 ^ k)) % 2
N == expected_index_count(S)
Complete(j) == IF j = N THEN "OK" ELSE "Cancelled"

\* C1: the frames of a fully sent record of more than 8 bytes, fed in order
\* to a freshly created buffer, give Cancelled on every frame but the last,
\* OK on the last, and then a value identical to the record sent.
C1_RoundTripInOrder ==
  (S > 8 /\ ~wasReset /\ run >= 1) =>
     /\ ret = Complete(run)
     /\ run = N => value = rec

\* C3: a record of at most 8 bytes is sent as one frame with size = S, the
\* record's bytes as data, is_remote_request clear and is_extended set, and
\* unpacking that frame returns OK with an identical value and no partial
\* state.
C3_SingleFrameRoundTrip ==
  (S <= 8 /\ txCount > 0) =>
     /\ Len(handed) = 1
     /\ handed[1].size = S
     /\ \A m \in 1..S : handed[1].data[m] = rec[m]
     /\ ~handed[1].is_remote_request
     /\ handed[1].is_extended
     /\ (calls > 0 /\ rxFrame = handed[1]) =>
          (ret = "OK" /\ value = rec /\ received = {})

C3_Witness ==
  /\ S = 8
  /\ txCount > 0
  /\ calls > 0
  /\ rxFrame = handed[1]
  /\ ret = "OK"
  /\ value = rec

\* C4: a fully sent record of more than 8 bytes goes out as N = ceil(S/7)
\* frames in increasing index order, all with the same id, is_extended set
\* and is_remote_request clear; frame k has data[0] = k, the record bytes
\* from offset 7k on behind it, size 8 before the last frame and
\* (S - 7(N-1)) + 1 on the last, so 2 <= size <= 8.
C4_SegmentLayout ==
  (S > 8 /\ txCount > 0 /\ tx_status = "OK") =>
     /\ Len(handed) = N
     /\ \A k \in 0..(N - 1) :
          LET f == handed[k + 1]
          IN /\ f.id = handed[1].id
             /\ f.is_extended
             /\ ~f.is_remote_request
             /\ f.data[1] = k
             /\ f.size = (IF k < N - 1 THEN 8 ELSE (S - 7 * (N - 1)) + 1)
             /\ f.size >= 2 /\ f.size <= 8
             /\ \A m \in 1..(f.size - 1) : f.data[m + 1] = rec[7 * k + m]

\* the first send of the last transmission that failed, -1 if none did
FirstFailure ==
  LET bad == {k \in DOMAIN bus : k < total_frames(S) /\ bus[k] # "OK"}
  IN IF bad = {} THEN -1 ELSE Min(bad)

\* C5: when the send of segment k fails, the frames handed to the bus are
\* the first k + 1 frames of the segmentation and nothing else, and the
\* status returned is that failure; a single-frame record returns the bus
\* result as it is.
C5_SendFailureStops ==
  (txCount > 0) =>
     IF S <= 8
     THEN Len(handed) = 1 /\ tx_status = bus[0]
     ELSE IF FirstFailure = -1
     THEN tx_status = "OK" /\ handed = TxFrames(S, rec, node_id)
     ELSE /\ tx_status = bus[FirstFailure]
          /\ handed = SubSeq(TxFrames(S, rec, node_id), 1, FirstFailure + 1)

C5_Witness ==
  /\ S = 20
  /\ txCount > 0
  /\ FirstFailure = 1
  /\ tx_status = "TimeOut"
  /\ Len(handed) = 2

\* C2: the N <= 256 frames of one fully sent record, fed to a fresh buffer
\* in any order, give incomplete for the first N - 1 frames received and
\* completion on the N-th, with a value identical to the record sent.
C2_OrderIndependent ==
  (S > 8 /\ N <= 256 /\ txCount = 1 /\ tx_status = "OK") =>
     /\ calls = N - Len(wire)
     /\ calls >= 1 => ret = Complete(calls)
     /\ calls = N => value = rec

\* the last segment was received first and segment 0 last
C2_Witness ==
  /\ S = 23
  /\ txCount = 1
  /\ tx_status = "OK"
  /\ calls = N
  /\ run = -1
  /\ rxFrame.data[1] = 0
  /\ ret = "OK"
  /\ value = rec

\* C6: for a record of more than 8 bytes a frame whose index byte is not
\* below the segment count returns Invalid and leaves the buffer as
\* constructed (no bit set, value zeroed), whatever it held; the segments
\* of a record fed in order right after such a reset give Cancelled up to
\* the last but one, OK on the last, and a value identical to the record.
C6_BadIndexResets ==
  /\ (S > 8 /\ calls > 0 /\ rxFrame.data[1] >= N) =>
        (ret = "Invalid" /\ received = {} /\ value = Zeroed(S))
  /\ (S > 8 /\ wasReset /\ run >= 1) =>
        /\ ret = Complete(run)
        /\ run = N => value = rec

C6_Witness ==
  /\ S = 9
  /\ wasReset
  /\ calls > N + 1
  /\ run = N
  /\ ret = "OK"
  /\ value = rec

\* C7: for a record of at most 8 bytes a frame whose size is not S returns
\* Invalid and leaves value and received as they were before the call.
C7_SizeMismatchKeepsBuffer ==
  [][(S <= 8 /\ calls' = calls + 1 /\ rxFrame'.size # S) =>
       (ret' = "Invalid" /\ value' = value /\ received' = received)]_vars

C7_Witness ==
  /\ S = 8
  /\ calls > 1
  /\ rxFrame.size # S
  /\ ret = "Invalid"
  /\ value = rec

\* C8: delivering again the segment last received for an index, with the
\* same size and the same bytes, leaves value and received as they were and
\* returns OK if the buffer was complete and Cancelled if it was not.
C8_RedeliveryIdempotent ==
  [][(/\ S > 8
      /\ calls' = calls + 1
      /\ rxFrame'.data[1] \in Indices(S)
      /\ lastSeg[rxFrame'.data[1]] = {rxFrame'}) =>
       (/\ value' = value
        /\ received' = received
        /\ ret' = IF received = Indices(S) THEN "OK" ELSE "Cancelled")]_vars

\* the offsets [7i, min(7i + 7, S)) of value that belong to segment i
SegmentBytes(i) == {o \in (7 * i)..(7 * i + 6) : o < S}

\* C9: after any frames with size in 1..8, bit i of received is set exactly
\* when all the bytes [7i, min(7i + 7, S)) of value were written by segments
\* of index i since the last reset.
C9_BitIffBytesWritten ==
  (S > 8) =>
     \A i \in Indices(S) : (i \in received) <=> (SegmentBytes(i) \subseteq written[i])

\* C10: on a frame with an in-range index mcan_unpack_msg returns OK exactly
\* when every bit of received is set after the frame, and Cancelled
\* otherwise; it never returns OK while some segment has not been received
\* since the last reset.
C10_CompletionOnlyWhenAllReceived ==
  (S > 8 /\ calls > 0 /\ ret # "none" /\ rxFrame.data[1] \in Indices(S)) =>
     /\ ret = (IF received = Indices(S) THEN "OK" ELSE "Cancelled")
     /\ ret = "OK" => \A i \in Indices(S) : lastSeg[i] # {}

(***************************************************************************)
(* Supporting lemmas: where the refuted claims do hold                     *)
(***************************************************************************)
\* the in-order round trip holds while the index fits its byte
RoundTripUpTo256Segments == (N <= 256) => C1_RoundTripInOrder

\* the layout of the segments holds while the index fits its byte
SegmentLayoutUpTo256Segments == (N <= 256) => C4_SegmentLayout

\* completion is sound as long as no copy has left value
CompletionSoundWithoutOverflow ==
  (fault = "none") => C10_CompletionOnlyWhenAllReceived

\* redelivery is idempotent as long as no copy has left value
RedeliveryIdempotentWithoutOverflow ==
  [][(/\ fault' = "none"
      /\ S > 8
      /\ calls' = calls + 1
      /\ rxFrame'.data[1] \in Indices(S)
      /\ lastSeg[rxFrame'.data[1]] = {rxFrame'}) =>
       (/\ value' = value
        /\ received' = received
        /\ ret' = IF received = Indices(S) THEN "OK" ELSE "Cancelled")]_vars

\* the frames of the current transmission accepted by the bus, and those of
\* them the receiver has been given
AcceptedCount == IF ok(tx_status) THEN Len(handed) ELSE Len(handed) - 1
Delivered == AcceptedCount - Len(wire)

\* C11: once mcan_unpack_msg has reported completion of a record of more
\* than 8 bytes, received is all clear before the next segment is processed:
\* the first segment of the next transmission reports incomplete, and
\* completion is reported only on a frame with which all N segments of the
\* transmission it belongs to have been delivered.
C11_ClearedOnceComplete ==
  [][(S > 8 /\ calls' = calls + 1) =>
       /\ (ret = "OK" => received = {})
       /\ (ret' = "OK" <=> Delivered' = N)]_vars

\* without an earlier completion, completion is reported exactly with the
\* last segment of a transmission
CompletionOncePerTransmissionWhileFresh ==
  [][(S > 8 /\ calls' = calls + 1 /\ received # Indices(S)) =>
       (ret' = "OK" <=> Delivered' = N)]_vars

\* C13: mcan_request_msg hands exactly one frame to the bus whatever the
\* size of the record: size 0, is_remote_request and is_extended set, the id
\* of the record type and node with the remote-request bit; the Status
\* returned is the one of that send.
C13_RequestIsOneEmptyRemoteFrame ==
  (req_status # "none") =>
     /\ Len(requested) = 1
     /\ requested[1].size = 0
     /\ requested[1].is_remote_request
     /\ requested[1].is_extended
     /\ requested[1].id =
          k_base_address * 256 + (node_id % 256) + CAN_REMOTE_REQUEST_FLAG
     /\ req_status = req_bus

C13_Witness ==
  /\ S = 20
  /\ node_id = 261
  /\ k_base_address = K_BASE_ADDRESS
  /\ req_status = "IOError"
  /\ Len(requested) = 1
  /\ requested[1].size = 0
  /\ requested[1].id = 1074934789

\* C12: for a base address below 2^21, a node id in 0..255 and either value
\* of remote, mcan_connect_msg_id_with_node_id returns (base << 8) | node_id
\* with bit 30 set exactly when remote is true and bits 29 and 31 clear;
\* the low 29 bits do not depend on remote, and (0x1234, 5, false) gives
\* (0x1234 << 8) | 5.
C12_ComposeLayout ==
  (codec_in # <<>>) =>
     LET b == codec_in[1]
         n == codec_in[2]
         r == codec_in[3]
     IN /\ codec_id = b * 256 + n + (IF r THEN 1073741824 ELSE 0)
        /\ Bit(codec_id, 30) = 1 <=> r
        /\ Bit(codec_id, 29) = 0
        /\ codec_id < 2147483647
        /\ codec_id % 536870912 = b * 256 + n
        /\ (b = 4660 /\ n = 5 /\ ~r) => codec_id = 1192965

C12_Witness ==
  /\ codec_in = <<2097151, 255, TRUE>>
  /\ codec_id = 1610612735

\* C14: for a base address below 2^21 and any int node_id given to
\* mcan_pack_send_msg, the id of every data frame it emits is below 2^29,
\* has the base address in bits 8..28 and node_id modulo 256 in bits 0..7,
\* and has bit 30 clear.
C14_DataFrameIdFits29Bits ==
  (txCount > 0) =>
     \A i \in 1..Len(handed) :
        /\ handed[i].id < 536870912
        /\ (handed[i].id \div 256) % 2097152 = k_base_address
        /\ handed[i].id % 256 = node_id % 256
        /\ Bit(handed[i].id, 30) = 0

C14_Witness ==
  /\ S = 20
  /\ node_id = 261
  /\ k_base_address = 2097151
  /\ tx_status = "OK"
  /\ Len(handed) = 3
  /\ handed[3].id = 536870661

\* the masked entries a frame with identifier fid matches, by position
Matching(fid) ==
  {i \in 1..Len(masked) :
     BitAnd(fid, masked[i].id_mask) = BitAnd(masked[i].id_base, masked[i].id_mask)}

\* C15: when an exact callback is registered for the id of an incoming
\* frame and a masked callback matching that id is registered too, only the
\* exact callback is invoked and the masked one is not, whichever of the
\* two was registered first.
C15_ExactBeforeMasked ==
  [][(/\ dispatches' = dispatches + 1
      /\ dispatched' \in DOMAIN callbacks
      /\ Matching(dispatched') # {}) =>
       (/\ invoked' = <<callbacks[dispatched']>>
        /\ \A i \in Matching(dispatched') :
             \A j \in 1..Len(invoked') : invoked'[j] # masked[i].callback)]_vars

\* the masked callback was registered before the exact one
C15_Witness ==
  /\ dispatches > 0
  /\ dispatched \in DOMAIN callbacks
  /\ \E i \in Matching(dispatched) : masked[i].callback < callbacks[dispatched]
  /\ invoked = <<callbacks[dispatched]>>

C17_TimeoutLeavesNoWaiter ==
  /\ [](waiter.waiting =>
          (elapsed < timeout_ms /\ await_result.status = "pending"))
  /\ [](await_result.status # "pending" => ~waiter.waiting)
  /\ [][(waiter.waiting /\ elapsed' >= timeout_ms) =>
          await_result'.status = "TimeOut"]_vars
  /\ [][(~waiter.waiting /\ dispatches' = dispatches + 1) =>
          (await_result' = await_result /\ ~waiter'.waiting)]_vars

\* after a timeout a frame with the response id has arrived
C17_Witness ==
  /\ await_result.status = "TimeOut"
  /\ elapsed = timeout_ms
  /\ timeout_ms = 2
  /\ returned_at >= 0
  /\ dispatches > returned_at
  /\ dispatched = waiter.response_id
  /\ ~waiter.waiting

BufferId == k_base_address * 256 + (node_id % 256)

\* C19: when two nodes with different node ids transmit the record type
\* with different values and their frames interleave at the receiver, a
\* frame of one node never changes the reassembly buffer of the other, and
\* whenever completion is reported the value is the record of one of the
\* two senders, never bytes of both.
C19_KeyedByFullId ==
  /\ [][(S > 8 /\ calls' = calls + 1 /\ rxFrame'.id # BufferId) =>
          (value' = value /\ received' = received)]_vars
  /\ []((S > 8 /\ ret = "OK") => (value = rec \/ value = OtherRec))

\* what a call on a frame with index byte i and size sz_f may change: the
\* bytes [7i, 7i + sz_f - 1) of value and bit i of received
OnlySegmentChanged(i, sz_f) ==
  /\ \A o \in 0..(S - 1) :
       (o < 7 * i \/ o >= 7 * i + sz_f - 1) => value'[o + 1] = value[o + 1]
  /\ \A b \in Indices(S) \ {i} : (b \in received') <=> (b \in received)

\* C20: for a record of more than 8 bytes, mcan_unpack_msg on a frame with
\* an in-range index i and size s changes only the bytes [7i, 7i + s - 1) of
\* value and bit i of received; every other byte of value and every other
\* bit of received stays as it was.
C20_FrameEffectOfSegment ==
  [][(/\ S > 8
      /\ calls' = calls + 1
      /\ rxFrame'.data[1] \in Indices(S)) =>
       OnlySegmentChanged(rxFrame'.data[1], rxFrame'.size)]_vars

\* the frame effect holds as long as no copy has left value
FrameEffectWithoutOverflow ==
  [][(/\ fault' = "none"
      /\ S > 8
      /\ calls' = calls + 1
      /\ rxFrame'.data[1] \in Indices(S)) =>
       OnlySegmentChanged(rxFrame'.data[1], rxFrame'.size)]_vars

\* C21: for a record of more than 8 bytes and a frame with any index byte
\* and any size in 0..8, the bytes mcan_unpack_msg writes lie inside
\* [0, S) of value: no copy leaves value, neither for a frame of size 0 nor
\* for a last segment that carries more than S - 7(N-1) bytes.
C21_WritesStayInsideValue ==
  (S > 8 /\ calls > 0) => fault = "none"

\* a frame with an in-range index and a size from 1 up to the size the
\* segmenter gives that segment is copied inside value
WritesStayInsideValueUpToSegmentSize ==
  [][(/\ S > 8
      /\ calls' = calls + 1
      /\ rxFrame'.data[1] \in Indices(S)
      /\ rxFrame'.size >= 1
      /\ rxFrame'.size <= segment_size(S, rxFrame'.data[1])) =>
       fault' = fault]_vars

\* C22: for base addresses below 2^21, node ids in 0..255 and either value
\* of remote, two different triples never give the same id, and
\* (id >> 8) & 0x1FFFFF, id & 0xFF and bit 30 of an id give back the base
\* address, the node id and remote it was composed of.
C22_ComposeInjective ==
  (codec_in # <<>>) =>
     /\ (codec_id \div 256) % 2097152 = codec_in[1]
     /\ codec_id % 256 = codec_in[2]
     /\ (Bit(codec_id, 30) = 1) = codec_in[3]
     /\ (codec_prev_in # <<>> /\ codec_prev_in # codec_in) =>
          codec_prev_id # codec_id

\* two triples that differ in base address and node id by one bit each
C22_Witness ==
  /\ codec_prev_in = <<0, 1, TRUE>>
  /\ codec_prev_id = 1073741825
  /\ codec_in = <<1, 0, TRUE>>
  /\ codec_id = 1073742080

====
